---- MODULE Spec2Model ----
(***************************************************************************)
(* FCM Excel -> JSON converter (src/app.py).                               *)
(*                                                                         *)
(* Text is a sequence of one-character strings, so that the regular        *)
(* expression of extract_season_from_filename, str.strip, str.replace,     *)
(* str.lower and the ordering used by sorted() are computed character by   *)
(* character.  Column names are atomic strings: the code only compares     *)
(* them for equality and membership.                                       *)
(***************************************************************************)
EXTENDS Integers, Sequences, FiniteSets, TLC

VARIABLES
    pc,            \* position of the front-end: "idle", "loop", "manifest", "done", "aborted"
    files,         \* _process_files: filtered, sorted list of files of the run (positions in FilePool)
    i,             \* _process_files: number of files of `files` already taken by the loop
    seasons,       \* _process_files: list of Season Summaries of the run
    seen_seasons,  \* _process_files: season keys already met in the run
    now_iso,       \* _process_files: timestamp of the run
    raw_mode,      \* _process_files: RAW flag of the run
    disk,          \* output directory: file name -> content
    disk0,         \* output directory as it was when the run started
    log,           \* lines printed by log() during the run
    runs,          \* number of runs started so far
    faults,        \* number of writes that have failed so far
    arg,           \* argument of the pure function under call
    ret            \* its result

vars == <<pc, files, i, seasons, seen_seasons, now_iso, raw_mode, disk, disk0,
          log, runs, faults, arg, ret>>

procvars == <<pc, files, i, seasons, seen_seasons, now_iso, raw_mode, disk, disk0,
              log, runs, faults>>

(***************************************************************************)
(* Bounds of the model.                                                    *)
(***************************************************************************)
MaxWs == 2          \* longest run of whitespace around the separator of a stem
MaxRows == 2        \* most rows of a table given to normalize_df
MaxSummaries == 3   \* longest list of summaries given to the manifest merge
MaxFiles == 2       \* most candidate files of one run
MaxRuns == 2        \* most runs on the same output directory
MaxFaults == 1      \* most writes that fail

(***************************************************************************)
(* Characters.                                                             *)
(***************************************************************************)
Digits == {"0", "1", "2", "3", "4", "5", "6", "7", "8", "9"}

Whitespace == {" ", "\t"}

Separators == {"_", "/", "-"}

\* Code point of a character, for the comparisons made by sorted().
Ord(c) ==
    CASE c = "\t" -> 9   [] c = " " -> 32  [] c = "%" -> 37  [] c = "+" -> 43
      [] c = "," -> 44   [] c = "-" -> 45  [] c = "." -> 46  [] c = "/" -> 47
      [] c = "0" -> 48   [] c = "1" -> 49  [] c = "2" -> 50  [] c = "3" -> 51
      [] c = "4" -> 52   [] c = "5" -> 53  [] c = "6" -> 54  [] c = "7" -> 55
      [] c = "8" -> 56   [] c = "9" -> 57
      [] c = "A" -> 65   [] c = "B" -> 66  [] c = "L" -> 76  [] c = "S" -> 83
      [] c = "X" -> 88   [] c = "_" -> 95
      [] c = "a" -> 97   [] c = "b" -> 98  [] c = "c" -> 99  [] c = "d" -> 100
      [] c = "e" -> 101  [] c = "f" -> 102 [] c = "i" -> 105 [] c = "j" -> 106
      [] c = "l" -> 108  [] c = "n" -> 110 [] c = "o" -> 111 [] c = "r" -> 114
      [] c = "s" -> 115  [] c = "t" -> 116 [] c = "x" -> 120
      [] OTHER -> 255

\* str.lower() on one character.
ToLower(c) ==
    CASE c = "A" -> "a" [] c = "B" -> "b" [] c = "L" -> "l" [] c = "S" -> "s"
      [] c = "X" -> "x" [] OTHER -> c

Lower(s) == [k \in 1..Len(s) |-> ToLower(s[k])]

\* a < b for Python strings: lexicographic by code point.
RECURSIVE StrLess(_, _)
StrLess(a, b) ==
    IF b = <<>> THEN FALSE
    ELSE IF a = <<>> THEN TRUE
    ELSE IF Ord(Head(a)) # Ord(Head(b)) THEN Ord(Head(a)) < Ord(Head(b))
    ELSE StrLess(Tail(a), Tail(b))

(***************************************************************************)
(* extract_season_from_filename                                            *)
(***************************************************************************)
\* (20\d{2}) at position k of s
IsYear(s, k) ==
    /\ k >= 1
    /\ k + 3 <= Len(s)
    /\ s[k] = "2"
    /\ s[k + 1] = "0"
    /\ s[k + 2] \in Digits
    /\ s[k + 3] \in Digits

\* \s* from position k: the position after the longest run of whitespace.
RECURSIVE SkipWs(_, _)
SkipWs(s, k) ==
    IF k <= Len(s) /\ s[k] \in Whitespace THEN SkipWs(s, k + 1) ELSE k

\* The pattern matched at position k: the position of the second year, or 0.
\* (Backtracking on \s* finds nothing more: a shorter run of whitespace is
\* followed by whitespace, never by a separator or a digit.)
MatchAt(s, k) ==
    IF ~IsYear(s, k) THEN 0
    ELSE LET p == SkipWs(s, k + 4)
         IN  IF p <= Len(s) /\ s[p] \in Separators
             THEN LET q == SkipWs(s, p + 1)
                  IN  IF IsYear(s, q) THEN q ELSE 0
             ELSE 0

\* A search that keeps the rightmost match instead of the leftmost.
re_search_last(s) ==
    LET starts == {k \in 1..Len(s) : MatchAt(s, k) # 0}
    IN  IF starts = {} THEN 0
        ELSE CHOOSE k \in starts : \A m \in starts : k >= m

\* re.search: the match at the leftmost position that has one; 0 if none.
re_search(s) ==
    LET starts == {k \in 1..Len(s) : MatchAt(s, k) # 0}
    IN  IF starts = {} THEN 0
        ELSE CHOOSE k \in starts : \A m \in starts : k <= m

Returned(v) == [st |-> "ret", val |-> v]

Raised(e) == [st |-> "raise", exc |-> e]

NotCalled == [st |-> "none"]

extract_season_from_filename(stem) ==
    LET m == re_search(stem)
    IN  IF m = 0 THEN Raised("ValueError")
        ELSE LET y1 == SubSeq(stem, m, m + 3)
                 q  == MatchAt(stem, m)
                 y2 == SubSeq(stem, q, q + 3)
             IN  Returned([label |-> y1 \o <<"/">> \o y2,
                           key   |-> y1 \o <<"_">> \o y2])

(***************************************************************************)
(* Constants of the program.                                               *)
(***************************************************************************)
SHEET_NAME == "Tutti i dati"

REQUIRED_COLUMNS ==
    << "Nome", "Sq", "R", "COD", "FMld", "T", "P", "Aff%",
       "MVC", "MVF", "MVT", "MVDSt", "MVDlt", "MVAnd", "MVRnd",
       "FMC", "FMF", "FMT", "FMDSt", "FMDlt", "FMAnd", "FMRnd",
       "GF", "GFR", "GS", "GSR", "AG", "AS", "RP", "RS", "A", "E", "TIn", "ID" >>

FLOAT_COLS ==
    { "FMld", "Aff%", "MVC", "MVF", "MVT", "MVDSt", "MVDlt", "MVAnd", "MVRnd",
      "FMC", "FMF", "FMT", "FMDSt", "FMDlt", "FMAnd", "FMRnd" }

INT_COLS == {"T", "P", "GF", "GFR", "GS", "GSR", "AG", "AS", "RP", "RS", "A", "E", "TIn"}

STR_COLS == {"Nome", "Sq", "R", "COD", "ID"}

Range(s) == {s[k] : k \in 1..Len(s)}

(***************************************************************************)
(* Tables.  A table (DataFrame) is [columns, rows]: the ordered column     *)
(* names and, per row, a function from column name to cell.  A cell is a   *)
(* string, an integer, a float (kept in thousandths), NaN (the missing     *)
(* marker) or an infinity.                                                 *)
(***************************************************************************)
S(s) == [t |-> "str", s |-> s]

I(v) == [t |-> "int", v |-> v]

F(m) == [t |-> "float", m |-> m]

NaN == [t |-> "nan"]

Inf == [t |-> "inf"]

Col(df, c) == [k \in 1..Len(df.rows) |-> df.rows[k][c]]

\* The dtype pandas gives a column: a column without strings that holds a
\* float, a NaN or an infinity is float64, and its integers become floats.
AsSeries(cells) ==
    IF /\ \A k \in 1..Len(cells) : cells[k].t # "str"
       /\ \E k \in 1..Len(cells) : cells[k].t \in {"float", "nan", "inf"}
    THEN [k \in 1..Len(cells) |->
            IF cells[k].t = "int" THEN F(cells[k].v * 1000) ELSE cells[k]]
    ELSE cells

(***************************************************************************)
(* ensure_required_columns                                                 *)
(***************************************************************************)
\* A validator that finds every table complete.
ensure_required_columns_none(df) == <<>>

\* A validator that stops at the first missing column.
ensure_required_columns_first(df) ==
    LET miss == SelectSeq(REQUIRED_COLUMNS, LAMBDA c : c \notin Range(df.columns))
    IN  IF miss = <<>> THEN <<>> ELSE <<Head(miss)>>

ensure_required_columns(df) ==
    SelectSeq(REQUIRED_COLUMNS, LAMBDA c : c \notin Range(df.columns))

(***************************************************************************)
(* normalize_df                                                            *)
(***************************************************************************)
DigitChar(d) ==
    CASE d = 0 -> "0" [] d = 1 -> "1" [] d = 2 -> "2" [] d = 3 -> "3" [] d = 4 -> "4"
      [] d = 5 -> "5" [] d = 6 -> "6" [] d = 7 -> "7" [] d = 8 -> "8" [] d = 9 -> "9"

DigitVal(c) == Ord(c) - 48

RECURSIVE NatToStr(_)
NatToStr(n) == IF n < 10 THEN <<DigitChar(n)>> ELSE NatToStr(n \div 10) \o <<DigitChar(n % 10)>>

Abs(n) == IF n < 0 THEN -n ELSE n

\* The fraction of a float in thousandths, as repr() prints it: trailing
\* zeros dropped, one digit kept.
FracStr(r) ==
    IF r % 100 = 0 THEN <<DigitChar(r \div 100)>>
    ELSE IF r % 10 = 0 THEN <<DigitChar(r \div 100), DigitChar((r \div 10) % 10)>>
    ELSE <<DigitChar(r \div 100), DigitChar((r \div 10) % 10), DigitChar(r % 10)>>

\* astype(str) on one cell
StrOf(cell) ==
    CASE cell.t = "str"   -> cell.s
      [] cell.t = "int"   -> (IF cell.v < 0 THEN <<"-">> ELSE <<>>) \o NatToStr(Abs(cell.v))
      [] cell.t = "float" -> (IF cell.m < 0 THEN <<"-">> ELSE <<>>)
                                \o NatToStr(Abs(cell.m) \div 1000) \o <<".">>
                                \o FracStr(Abs(cell.m) % 1000)
      [] cell.t = "nan"   -> <<"n", "a", "n">>
      [] cell.t = "inf"   -> <<"i", "n", "f">>

RECURSIVE LStrip(_)
LStrip(s) == IF s # <<>> /\ Head(s) \in Whitespace THEN LStrip(Tail(s)) ELSE s

RECURSIVE RStrip(_)
RStrip(s) ==
    IF s # <<>> /\ s[Len(s)] \in Whitespace THEN RStrip(SubSeq(s, 1, Len(s) - 1)) ELSE s

\* str.strip()
Strip(s) == RStrip(LStrip(s))

\* str.replace(old, new) for a one-character old; new is a string
RECURSIVE Replace(_, _, _)
Replace(s, old, new) ==
    IF s = <<>> THEN <<>>
    ELSE (IF Head(s) = old THEN new ELSE <<Head(s)>>) \o Replace(Tail(s), old, new)

EnDash == "EN DASH"

\* A clean-up that also drops the points, as thousands separators.
CleanThousands(s) ==
    Replace(Replace(Replace(Replace(Replace(s, "%", <<>>), ".", <<>>), ",", <<".">>),
                    EnDash, <<>>), "-", <<>>)

\* lines 93-98: the clean-up of a numeric-with-decimals string
Clean(s) ==
    Replace(Replace(Replace(Replace(s, "%", <<>>), ",", <<".">>), EnDash, <<>>), "-", <<>>)

AllDigits(s) == \A k \in 1..Len(s) : s[k] \in Digits

RECURSIVE DigitsVal(_)
DigitsVal(s) ==
    IF s = <<>> THEN 0 ELSE DigitsVal(SubSeq(s, 1, Len(s) - 1)) * 10 + DigitVal(s[Len(s)])

\* The first three digits of a fraction, in thousandths.
FracVal(s) ==
    LET d(k) == IF k <= Len(s) THEN DigitVal(s[k]) ELSE 0
    IN  d(1) * 100 + d(2) * 10 + d(3)

\* pd.to_numeric(errors="coerce") on one string: surrounding whitespace and a
\* sign are accepted; digits give an integer, digits with one point a float,
\* "nan" and "inf" their value; anything else is coerced to NaN.
ParseNumber(s) ==
    LET u    == Strip(s)
        neg  == u # <<>> /\ Head(u) = "-"
        b    == IF u # <<>> /\ Head(u) \in {"-", "+"} THEN Tail(u) ELSE u
        dots == {k \in 1..Len(b) : b[k] = "."}
        sgn  == IF neg THEN -1 ELSE 1
    IN  IF b # <<>> /\ AllDigits(b) THEN I(sgn * DigitsVal(b))
        ELSE IF Cardinality(dots) = 1
        THEN LET p  == CHOOSE k \in dots : TRUE
                 ip == SubSeq(b, 1, p - 1)
                 fp == SubSeq(b, p + 1, Len(b))
             IN  IF AllDigits(ip) /\ AllDigits(fp) /\ Len(ip) + Len(fp) > 0
                 THEN F(sgn * (DigitsVal(ip) * 1000 + FracVal(fp)))
                 ELSE NaN
        ELSE IF b = <<"i", "n", "f">> THEN Inf
        ELSE NaN

\* pd.to_numeric(errors="coerce") on a column
to_numeric(cells) ==
    AsSeries([k \in 1..Len(cells) |->
                IF cells[k].t = "str" THEN ParseNumber(cells[k].s) ELSE cells[k]])

\* Series.round(2): round half to even on the hundredths
Round2(cell) ==
    IF cell.t # "float" THEN cell
    ELSE LET a == Abs(cell.m)
             h == a \div 10
             r == a % 10
             q == IF r < 5 THEN h
                  ELSE IF r > 5 THEN h + 1
                  ELSE IF h % 2 = 0 THEN h ELSE h + 1
         IN  F((IF cell.m < 0 THEN -1 ELSE 1) * q * 10)

\* line 87
NormStr(cells) == [k \in 1..Len(cells) |-> S(Strip(StrOf(cells[k])))]

\* lines 92-99
NormFloat(cells) ==
    LET n == to_numeric([k \in 1..Len(cells) |-> S(Clean(Strip(StrOf(cells[k]))))])
    IN  [k \in 1..Len(cells) |-> Round2(n[k])]

\* line 105, astype(int): it raises on a value that is not finite
IntRaises(cells) ==
    \E k \in 1..Len(cells) : to_numeric(cells)[k].t = "inf"

\* lines 104-105: fillna(0), then truncation toward zero
NormInt(cells) ==
    LET n == to_numeric(cells)
    IN  [k \in 1..Len(cells) |->
            CASE n[k].t = "nan"   -> I(0)
              [] n[k].t = "float" -> I((IF n[k].m < 0 THEN -1 ELSE 1) * (Abs(n[k].m) \div 1000))
              [] OTHER            -> n[k]]

NormCol(df, c) ==
    IF c \in STR_COLS THEN NormStr(Col(df, c))
    ELSE IF c \in FLOAT_COLS THEN NormFloat(Col(df, c))
    ELSE IF c \in INT_COLS THEN NormInt(Col(df, c))
    ELSE Col(df, c)

normalize_df(df) ==
    IF \E c \in Range(df.columns) \cap INT_COLS : IntRaises(Col(df, c))
    THEN Raised("IntCastingNaNError")
    ELSE Returned([columns |-> df.columns,
                   rows    |-> [k \in 1..Len(df.rows) |->
                                  [c \in Range(df.columns) |-> NormCol(df, c)[k]]]])

(***************************************************************************)
(* The manifest merge of _process_files (lines 216-218).                   *)
(***************************************************************************)
\* A dictionary that keeps the first summary of each key.
dedup_first(ss) ==
    [k \in {ss[n].key : n \in 1..Len(ss)} |->
        ss[CHOOSE n \in 1..Len(ss) :
              /\ ss[n].key = k
              /\ \A m \in 1..Len(ss) : ss[m].key = k => m >= n]]

\* dedup = {s["key"]: s for s in seasons}: the last summary of each key
dedup(ss) ==
    [k \in {ss[n].key : n \in 1..Len(ss)} |->
        ss[CHOOSE n \in 1..Len(ss) :
              /\ ss[n].key = k
              /\ \A m \in 1..Len(ss) : ss[m].key = k => m <= n]]

\* sorted() on a set of distinct strings
RECURSIVE sorted(_)
sorted(K) ==
    IF K = {} THEN <<>>
    ELSE LET lo == CHOOSE k \in K : \A o \in K \ {k} : StrLess(k, o)
         IN  <<lo>> \o sorted(K \ {lo})

seasons_sorted(ss) ==
    LET d  == dedup(ss)
        ks == sorted(DOMAIN d)
    IN  [n \in 1..Len(ks) |-> d[ks[n]]]

JSON == <<".", "j", "s", "o", "n">>

SEASONS_JSON == <<"s", "e", "a", "s", "o", "n", "s">> \o JSON

\* A manifest that keeps the entries of the manifest already on disk.
ManifestWithHistory(ss) ==
    LET old == IF SEASONS_JSON \in DOMAIN disk /\ disk[SEASONS_JSON].kind = "manifest"
               THEN disk[SEASONS_JSON].seasons ELSE <<>>
    IN  [kind |-> "manifest", schema_version |-> 1, seasons |-> seasons_sorted(old \o ss)]

\* line 218
Manifest(ss) == [kind |-> "manifest", schema_version |-> 1, seasons |-> seasons_sorted(ss)]

\* A test that lets an empty list through.
manifest_due_always(ss) == TRUE

\* line 215: if seasons
manifest_due(ss) == ss # <<>>

(***************************************************************************)
(* Calls of the pure functions on their own: the argument is drawn from a  *)
(* bounded set of inputs, the call stores the result.                      *)
(***************************************************************************)
Y2019 == <<"2", "0", "1", "9">>
Y2020 == <<"2", "0", "2", "0">>
Y2021 == <<"2", "0", "2", "1">>
Y2022 == <<"2", "0", "2", "2">>
Y2023 == <<"2", "0", "2", "3">>
Y2024 == <<"2", "0", "2", "4">>

WsRuns == {[k \in 1..n |-> " "] : n \in 0..MaxWs} \cup {<<"\t">>}

StemInputs ==
    { p \o a \o w1 \o sep \o w2 \o b \o q :
        p   \in {<<>>, <<"x", "_">>, Y2020, Y2019 \o <<"-">> \o Y2020 \o <<" ">>},
        a   \in {Y2021, Y2023, <<"1", "9", "9", "9">>, <<"2", "0", "x", "1">>},
        w1  \in WsRuns,
        sep \in {<<"_">>, <<"/">>, <<"-">>, <<"x">>, <<>>},
        w2  \in WsRuns,
        b   \in {Y2022, Y2021, <<"2", "0", "2">>, <<"2", "1", "2", "2">>},
        q   \in {<<>>, <<"_", "v", "2">>, <<"-">> \o Y2024} }

\* Column lists: some required columns dropped, extra columns added in front
\* or behind, the required ones in canonical or in reverse order.
Reverse(s) == [k \in 1..Len(s) |-> s[Len(s) + 1 - k]]

ColumnInputs ==
    { [columns |-> (IF front THEN ex ELSE <<>>)
                     \o (IF rev THEN Reverse(SelectSeq(REQUIRED_COLUMNS, LAMBDA c : c \notin drop))
                                ELSE SelectSeq(REQUIRED_COLUMNS, LAMBDA c : c \notin drop))
                     \o (IF front THEN <<>> ELSE ex),
       rows    |-> <<>>] :
        drop  \in SUBSET {"Nome", "COD", "T", "Aff%", "ID"},
        ex    \in {<<>>, <<"Note">>, <<"Extra", "Note">>, <<"cod">>},
        front \in BOOLEAN,
        rev   \in BOOLEAN }

\* Cells as a sheet can hold them.
Txt3_50pct == <<"3", ",", "5", "0", "%">>
Txt12dash  == <<"1", "2", "-">>
TxtNA      == <<"n", "/", "a">>
TxtRossi   == <<" ", "R", "o", "s", "s", "i", " ">>
TxtInf     == <<"i", "n", "f">>

CellInputs ==
    { S(TxtRossi), S(Txt3_50pct), S(Txt12dash), S(TxtNA), S(TxtInf), S(<<>>),
      S(<<"-", "3", ".", "5">>), S(<<" ", "7", " ">>), S(<<"2", ".", "1", "2", "5">>),
      S(<<"1", "2", EnDash, "3">>), S(<<"1", ".", "2", "3", "4", ",", "5">>),
      I(5), I(-2), F(3456), F(-3500), F(12000), NaN }

SeqsUpTo(X, n) == UNION {[1..m -> X] : m \in 0..n}

\* One column of each treatment, up to MaxRows rows, as read_excel types it.
TableInputs ==
    { [columns |-> <<c>>,
       rows    |-> [k \in 1..Len(cells) |-> [d \in {c} |-> AsSeries(cells)[k]]]] :
        c \in {"Nome", "Aff%", "T", "Note"}, cells \in SeqsUpTo(CellInputs, MaxRows) }
    \cup
    { [columns |-> <<"Note", "T", "Aff%", "Nome">>,
       rows    |-> << [d \in {"Note", "T", "Aff%", "Nome"} |->
                        CASE d = "Note" -> x [] d = "T" -> y [] d = "Aff%" -> z [] OTHER -> w] >>] :
        x \in {S(Txt3_50pct), NaN}, y \in {S(<<" ", "7", " ">>), F(-3500), NaN},
        z \in {S(Txt3_50pct), F(3456), I(5)}, w \in {S(TxtRossi), I(5), NaN} }

KeyInputs == {Y2021 \o <<"_">> \o Y2022, Y2022 \o <<"_">> \o Y2023, Y2019 \o <<"_">> \o Y2020}

SummaryInputs ==
    { [label |-> SubSeq(k, 1, 4) \o <<"/">> \o SubSeq(k, 6, 9), key |-> k,
       file |-> k \o <<".", "j", "s", "o", "n">>, n_players |-> n, last_updated |-> 0] :
        k \in KeyInputs, n \in 1..2 }

ProcIdle ==
    /\ pc = "idle"
    /\ files = <<>>
    /\ i = 0
    /\ seasons = <<>>
    /\ seen_seasons = {}
    /\ now_iso = 0
    /\ disk = <<>>
    /\ disk0 = <<>>
    /\ log = <<>>
    /\ runs = 0
    /\ faults = 0

InitExtract == ProcIdle /\ raw_mode = FALSE /\ arg \in StemInputs /\ ret = NotCalled

CallExtract ==
    /\ ret = NotCalled
    /\ ret' = extract_season_from_filename(arg)
    /\ UNCHANGED <<arg, procvars>>

SpecExtract == InitExtract /\ [][CallExtract]_vars

InitColumns == ProcIdle /\ raw_mode = FALSE /\ arg \in ColumnInputs /\ ret = NotCalled

CallColumns ==
    /\ ret = NotCalled
    /\ ret' = Returned(ensure_required_columns(arg))
    /\ UNCHANGED <<arg, procvars>>

SpecColumns == InitColumns /\ [][CallColumns]_vars

InitNormalize ==
    /\ ProcIdle
    /\ raw_mode = FALSE
    /\ arg \in {[df |-> t, calls |-> 0, first |-> NotCalled] : t \in TableInputs}
    /\ ret = NotCalled

\* normalize_df changes df in place and returns it; a second call works on
\* the table the first one left.
CallNormalize ==
    /\ arg.calls < 2
    /\ arg.calls = 1 => ret.st = "ret"
    /\ LET r == normalize_df(arg.df)
       IN  /\ ret' = r
           /\ arg' = [df    |-> IF r.st = "ret" THEN r.val ELSE arg.df,
                      calls |-> arg.calls + 1,
                      first |-> IF arg.calls = 0 THEN r ELSE arg.first]
    /\ UNCHANGED procvars

SpecNormalize == InitNormalize /\ [][CallNormalize]_vars

InitMerge == ProcIdle /\ raw_mode = FALSE /\ arg \in SeqsUpTo(SummaryInputs, MaxSummaries) /\ ret = NotCalled

\* lines 215-218: a manifest is built when the list is not empty
CallMerge ==
    /\ ret = NotCalled
    /\ manifest_due(arg)
    /\ ret' = Returned(Manifest(arg))
    /\ UNCHANGED <<arg, procvars>>

\* lines 224-225
CallMergeNothing ==
    /\ ret = NotCalled
    /\ ~manifest_due(arg)
    /\ ret' = [st |-> "nothing"]
    /\ UNCHANGED <<arg, procvars>>

SpecMerge == InitMerge /\ [][CallMerge \/ CallMergeNothing]_vars

(***************************************************************************)
(* Files.  A candidate file is [stem, suffix, is_file, format, has_sheet,  *)
(* table]: its name, whether the path is a file, the format its bytes are  *)
(* in, whether the workbook has the sheet SHEET_NAME, and that sheet.      *)
(***************************************************************************)
Row(n, t) ==
    [c \in Range(REQUIRED_COLUMNS) \cup {"Note"} |->
        IF c = "T" THEN t
        ELSE IF c \in STR_COLS THEN S(TxtRossi)
        ELSE IF c \in FLOAT_COLS THEN S(Txt3_50pct)
        ELSE IF c \in INT_COLS THEN I(n)
        ELSE S(TxtNA)]

Restrict(f, D) == [c \in D |-> f[c]]

Table(cols, rows) ==
    [columns |-> cols, rows |-> [k \in 1..Len(rows) |-> Restrict(rows[k], Range(cols))]]

TwoRows == Table(REQUIRED_COLUMNS, <<Row(1, I(7)), Row(2, S(TxtNA))>>)

OneRowNote == Table(<<"Note">> \o REQUIRED_COLUMNS, <<Row(3, I(7))>>)

NoCodNoId ==
    Table(SelectSeq(REQUIRED_COLUMNS, LAMBDA c : c \notin {"COD", "ID"}), <<Row(4, I(7))>>)

InfInT == Table(REQUIRED_COLUMNS, <<Row(5, S(TxtInf))>>)

XLS == <<".", "x", "l", "s">>

XLSX == <<".", "x", "l", "s", "x">>

File(stem, suffix, format, table) ==
    [stem |-> stem, suffix |-> suffix, is_file |-> TRUE, format |-> format,
     has_sheet |-> TRUE, table |-> table]

\* 2021_2022, two rows
FileA == File(<<"a", "_">> \o Y2021 \o <<"_">> \o Y2022, XLSX, "xlsx", TwoRows)

\* 2021_2022 again, one row and an extra column
FileB == File(<<"B", " ">> \o Y2021 \o <<"-">> \o Y2022, <<".", "X", "L", "S", "X">>, "xlsx", OneRowNote)

\* 2022_2023, without COD and ID
FileC == File(<<"c">> \o Y2022 \o <<"_">> \o Y2023, XLS, "xls", NoCodNoId)

\* 2022_2023, "inf" in the integer column T
FileD == File(<<"d">> \o Y2022 \o <<" ", "-", " ">> \o Y2023, XLSX, "xlsx", InfInT)

\* 2021_2022 again, .xlsx bytes under the name .xls
FileE == File(<<"e", "_">> \o Y2021 \o <<"_">> \o Y2022, XLS, "xlsx", TwoRows)

\* 2023_2024
FileF == File(<<"f", "_">> \o Y2023 \o <<"_">> \o Y2024, XLSX, "xlsx", OneRowNote)

\* no season in the name
FileR == File(<<"r", "e", "p", "o", "r", "t">>, XLSX, "xlsx", TwoRows)

\* not a spreadsheet
FileT == File(<<"A", "_">> \o Y2021 \o <<"_">> \o Y2022, <<".", "t", "x", "t">>, "xlsx", TwoRows)

\* The files a selection is made of, in the order the dialog lists them.
FilePool == <<FileR, FileF, FileT, FileB, FileE, FileD, FileA, FileC>>

\* The selections of at most MaxFiles files, as positions in FilePool.
Selections ==
    { SelectSeq([n \in 1..Len(FilePool) |-> n], LAMBDA n : n \in chosen) :
        chosen \in {c \in SUBSET (1..Len(FilePool)) : Cardinality(c) <= MaxFiles} }

Name(fp) == FilePool[fp].stem \o FilePool[fp].suffix

\* Lines 65-73: openpyxl reads .xlsx, xlrd anything else; a reader fails on
\* bytes of the other format and on a workbook without the sheet.
read_excel_with_engine(fp) ==
    LET f == FilePool[fp]
    IN  IF Lower(f.suffix) = XLSX
        THEN IF f.format = "xlsx" /\ f.has_sheet THEN Returned(f.table)
             ELSE Raised("SheetReadError")
        ELSE IF f.format = "xls" /\ f.has_sheet THEN Returned(f.table)
             ELSE Raised("SheetReadError")

\* line 137
Supported(fp) == FilePool[fp].is_file /\ Lower(FilePool[fp].suffix) \in {XLS, XLSX}

\* line 138: sorted(files, key=lambda p: p.name.lower()), a stable sort
RECURSIVE Insert(_, _)
Insert(fs, fp) ==
    IF fs = <<>> THEN <<fp>>
    ELSE IF StrLess(Lower(Name(fp)), Lower(Name(Head(fs)))) THEN <<fp>> \o fs
    ELSE <<Head(fs)>> \o Insert(Tail(fs), fp)

RECURSIVE SortByName(_)
SortByName(fs) ==
    IF fs = <<>> THEN <<>>
    ELSE Insert(SortByName(SubSeq(fs, 1, Len(fs) - 1)), fs[Len(fs)])

\* lines 136-138
FilterAndSort(cands) == SortByName(SelectSeq(cands, Supported))

\* lines 189-196
Document(df, season, now) ==
    [kind |-> "document", schema_version |-> 1,
     season_label |-> season.label, season_key |-> season.key,
     generated_at |-> now, columns |-> df.columns, players |-> df.rows]

\* lines 205-211
Summary(df, season, now) ==
    [label |-> season.label, key |-> season.key, file |-> season.key \o JSON,
     n_players |-> Len(df.rows), last_updated |-> now]

\* Lines 115-116.  Path.write_text opens the file for writing, which empties
\* it, and then writes the text: the call ends well ("ok"), fails before the
\* file is opened ("refused": the file stays as it was) or fails after
\* ("cut": the file is left without the whole text).
WriteOutcomes == {"ok", "refused", "cut"}

Truncated == [kind |-> "truncated"]

write_json(d, path, data, outcome) ==
    CASE outcome = "ok"      -> (path :> data) @@ d
      [] outcome = "cut"     -> (path :> Truncated) @@ d
      [] outcome = "refused" -> d

\* The outcomes a write can have while at most MaxFaults writes fail.
Outcomes == IF faults < MaxFaults THEN WriteOutcomes ELSE {"ok"}

Line(tag, what) == [tag |-> tag, what |-> what]

\* The files do not change during a run: what the functions of the pipeline
\* return for each file of FilePool.
SeasonOf == [fp \in 1..Len(FilePool) |-> extract_season_from_filename(FilePool[fp].stem)]

SheetOf == [fp \in 1..Len(FilePool) |-> read_excel_with_engine(fp)]

MissingOf ==
    [fp \in 1..Len(FilePool) |->
        IF SheetOf[fp].st = "ret" THEN ensure_required_columns(SheetOf[fp].val) ELSE <<>>]

NormalizedOf ==
    [fp \in 1..Len(FilePool) |->
        IF SheetOf[fp].st = "ret" THEN normalize_df(SheetOf[fp].val) ELSE SheetOf[fp]]

SortedOf == [cands \in Selections |-> FilterAndSort(cands)]

(***************************************************************************)
(* _process_files                                                          *)
(***************************************************************************)
\* The RAW checkbox is set before the first run.
Init ==
    /\ ProcIdle
    /\ raw_mode \in BOOLEAN
    /\ arg = <<>>
    /\ ret = NotCalled

\* Lines 131-152, from the click on "Converti" (lines 270-293) to the loop.
\* Each run is stamped with a later second than the run before it.
StartRun(cands) ==
    /\ pc = "idle"
    /\ runs < MaxRuns
    /\ runs' = runs + 1
    /\ now_iso' = runs'
    /\ disk0' = disk
    /\ seasons' = <<>>
    /\ seen_seasons' = {}
    /\ i' = 0
    /\ files' = SortedOf[cands]
    /\ IF files' = <<>>
       THEN /\ log' = <<Line("INFO nothing selected", 0)>>
            /\ pc' = "done"
       ELSE /\ log' = <<>>
            /\ pc' = "loop"
    /\ UNCHANGED <<raw_mode, disk, faults, arg, ret>>

\* One iteration of the loop of lines 154-212.
ProcessFile ==
    /\ pc = "loop"
    /\ i < Len(files)
    /\ i' = i + 1
    /\ LET fp     == files[i + 1]
           log1   == Append(log, Line("Leggo", fp))
           season == SeasonOf[fp]
       IN  IF season.st = "raise"
           THEN /\ log' = Append(log1, Line("WARN skipped", fp))
                /\ UNCHANGED <<pc, seasons, seen_seasons, disk, faults>>
           ELSE
           LET key  == season.val.key
               log2 == IF key \in seen_seasons
                       THEN Append(log1, Line("WARN duplicate season", fp))
                       ELSE log1
               df0  == SheetOf[fp]
           IN  /\ seen_seasons' = seen_seasons \cup {key}
               /\ IF df0.st = "raise"
                  THEN /\ log' = Append(log2, Line("ERROR read", fp))
                       /\ UNCHANGED <<pc, seasons, disk, faults>>
                  ELSE
                  LET missing == MissingOf[fp]
                  IN  IF missing # <<>>
                      THEN /\ log' = Append(log2, Line("ERROR missing columns", fp))
                           /\ UNCHANGED <<pc, seasons, disk, faults>>
                      ELSE
                      LET df1 == IF raw_mode THEN df0 ELSE NormalizedOf[fp]
                      IN  IF df1.st = "raise"
                          THEN \* line 184 is in no try block: the exception leaves the loop
                               /\ pc' = "aborted"
                               /\ log' = log2
                               /\ UNCHANGED <<seasons, disk, faults>>
                          ELSE
                          LET out      == Document(df1.val, season.val, now_iso)
                              out_path == key \o JSON
                          IN  \E outcome \in Outcomes :
                                 /\ disk' = write_json(disk, out_path, out, outcome)
                                 /\ IF outcome = "ok"
                                    THEN /\ seasons' = Append(seasons, Summary(df1.val, season.val, now_iso))
                                         /\ log' = Append(log2, Line("OK", fp))
                                         /\ faults' = faults
                                    ELSE /\ seasons' = seasons
                                         /\ log' = Append(log2, Line("ERROR write", fp))
                                         /\ faults' = faults + 1
                                 /\ pc' = pc
    /\ UNCHANGED <<files, now_iso, raw_mode, disk0, runs, arg, ret>>

\* Lines 214-225, after the last file.
UpdateManifest ==
    /\ pc = "loop"
    /\ i = Len(files)
    /\ pc' = "done"
    /\ IF manifest_due(seasons)
       THEN \E outcome \in Outcomes :
               /\ disk' = write_json(disk, SEASONS_JSON, Manifest(seasons), outcome)
               /\ log' = Append(log, IF outcome = "ok" THEN Line("OK seasons.json", 0)
                                     ELSE Line("ERROR seasons.json", 0))
               /\ faults' = IF outcome = "ok" THEN faults ELSE faults + 1
       ELSE /\ disk' = disk
            /\ faults' = faults
            /\ log' = Append(log, Line("FINE nothing generated", 0))
    /\ UNCHANGED <<files, i, seasons, seen_seasons, now_iso, raw_mode, disk0, runs,
                   arg, ret>>

\* _process_files is left, by its return (lines 149, 225) or by the exception
\* of line 184, which also ends the program: its locals are gone, the window
\* (cleared at line 276, or opened again) waits for the next click.  The
\* output directory stays.
Return ==
    /\ pc \in {"done", "aborted"}
    /\ pc' = "idle"
    /\ files' = <<>>
    /\ i' = 0
    /\ seasons' = <<>>
    /\ seen_seasons' = {}
    /\ now_iso' = 0
    /\ disk0' = <<>>
    /\ log' = <<>>
    /\ UNCHANGED <<raw_mode, disk, runs, faults, arg, ret>>

Next ==
    \/ \E cands \in Selections : StartRun(cands)
    \/ ProcessFile
    \/ UpdateManifest
    \/ Return

Spec == Init /\ [][Next]_vars

(***************************************************************************)
(* Properties of the pure functions.                                       *)
(***************************************************************************)
YearAt(s, k) ==
    /\ k + 3 <= Len(s)
    /\ s[k] = "2" /\ s[k + 1] = "0"
    /\ \A j \in {k + 2, k + 3} : \E d \in 0..9 : s[j] = DigitChar(d)

\* The substrings <year><whitespace><separator><whitespace><year> of s, each as
\* <<start of the first year, position of the separator, start of the second year>>.
Forms(s) ==
    LET ys == {k \in 1..Len(s) : YearAt(s, k)}
        ps == {p \in 1..Len(s) : s[p] \in {"_", "-", "/"}}
    IN  {f \in ys \X ps \X ys :
            /\ f[1] + 4 <= f[2]
            /\ f[2] < f[3]
            /\ \A j \in ((f[1] + 4)..(f[2] - 1)) \cup ((f[2] + 1)..(f[3] - 1)) :
                  s[j] \in {" ", "\t"}}

\* C8: extract_season_from_filename returns ("Y1/Y2", "Y1_Y2") for the two
\* years of the leftmost substring <20dd><ws*><_ - or /><ws*><20dd> of the
\* stem, whatever the separator and the years, and raises the
\* pattern-not-found error when the stem has no such substring.
C8_ExtractSeason ==
    ret.st # "none" =>
        LET fs == Forms(arg)
        IN  IF fs = {} THEN ret = Raised("ValueError")
            ELSE LET f  == CHOOSE f \in fs : \A g \in fs : f[1] <= g[1]
                     y1 == SubSeq(arg, f[1], f[1] + 3)
                     y2 == SubSeq(arg, f[3], f[3] + 3)
                 IN  /\ ret.st = "ret"
                     /\ ret.val.label = y1 \o <<"/">> \o y2
                     /\ ret.val.key = y1 \o <<"_">> \o y2

\* A stem with two matches, whitespace round a "/" and years that do not
\* follow each other: the first match is returned.
C8_Witness ==
    /\ arg = Y2019 \o <<"-">> \o Y2020 \o <<" ">> \o Y2023 \o <<" ", " ", "/", "\t">> \o Y2021
    /\ ret = Returned([label |-> Y2019 \o <<"/">> \o Y2020, key |-> Y2019 \o <<"_">> \o Y2020])

PosRequired(c) == CHOOSE n \in 1..Len(REQUIRED_COLUMNS) : REQUIRED_COLUMNS[n] = c

C7_State ==
    ret.st = "ret" =>
        LET cols == Range(arg.columns)
            m    == ret.val
        IN  /\ Range(m) = Range(REQUIRED_COLUMNS) \ cols
            /\ \A a, b \in 1..Len(m) : a < b => PosRequired(m[a]) < PosRequired(m[b])
            /\ (m = <<>>) <=> Cardinality(cols \cap Range(REQUIRED_COLUMNS)) = 34
            /\ \A d \in ColumnInputs :
                  Range(d.columns) \cap Range(REQUIRED_COLUMNS) = cols \cap Range(REQUIRED_COLUMNS)
                     => ensure_required_columns(d) = m

\* C7: ensure_required_columns returns exactly the required columns the table
\* lacks, in REQUIRED_COLUMNS order (the empty list iff all 34 are there), the
\* same list for every order of the table's columns and every set of extra
\* columns, and it leaves the table as it was.
C7_EnsureRequiredColumns == []C7_State /\ [][arg' = arg]_vars

\* COD and ID dropped, two extra columns in front, the rest in reverse order.
C7_Witness ==
    /\ ret = Returned(<<"COD", "ID">>)
    /\ Len(arg.columns) = 34
    /\ arg.columns[1] = "Extra"
    /\ arg.columns[3] = "TIn"

\* C9: normalize_df is idempotent: a second call on the table the first call
\* returned gives that table again, same columns, same rows, cell by cell.
C9_NormalizeIdempotent ==
    arg.calls = 2 => ret = arg.first

\* "3,50%" and "n/a" in a numeric-with-decimals column, normalized twice.
C9_Witness ==
    /\ arg.calls = 2
    /\ ret.st = "ret"
    /\ ret.val.columns = <<"Aff%">>
    /\ Len(ret.val.rows) = 2
    /\ ret.val.rows[1]["Aff%"] = F(3500)
    /\ ret.val.rows[2]["Aff%"] = NaN

\* C2: the manifest built from any list of summaries has at most one entry per
\* key, its entries ascend by key, and the entry of a key is the last summary
\* of that key in the list.
C2_ManifestMerge ==
    ret.st = "ret" =>
        LET m == ret.val.seasons
        IN  /\ \A a, b \in 1..Len(m) : a < b => StrLess(m[a].key, m[b].key)
            /\ {m[n].key : n \in 1..Len(m)} = {arg[n].key : n \in 1..Len(arg)}
            /\ \A n \in 1..Len(m) :
                  \E j \in 1..Len(arg) :
                     /\ arg[j] = m[n]
                     /\ \A l \in (j + 1)..Len(arg) : arg[l].key # m[n].key

\* 2022_2023, then 2021_2022 twice: two entries, the later 2021_2022 first.
C2_Witness ==
    /\ Len(arg) = 3
    /\ arg[1].key = Y2022 \o <<"_">> \o Y2023
    /\ arg[2].key = Y2021 \o <<"_">> \o Y2022 /\ arg[2].n_players = 1
    /\ arg[3].key = Y2021 \o <<"_">> \o Y2022 /\ arg[3].n_players = 2
    /\ ret.st = "ret"
    /\ ret.val.seasons = <<arg[3], arg[1]>>

(***************************************************************************)
(* Properties of _process_files.  What a file is, is read off FilePool;    *)
(* what the run did with it, off the log and the output directory.         *)
(***************************************************************************)
InRun == pc \in {"loop", "done", "aborted"}

HasLine(tag, what) == \E l \in 1..Len(log) : log[l] = Line(tag, what)

\* The files the loop has taken so far.
Taken == SubSeq(files, 1, i)

HasSeason(fp) == Forms(FilePool[fp].stem) # {}

KeyOf(fp) == SeasonOf[fp].val.key

Readable(fp) ==
    LET f == FilePool[fp]
    IN  /\ f.has_sheet
        /\ \/ Lower(f.suffix) = XLSX /\ f.format = "xlsx"
           \/ Lower(f.suffix) = XLS /\ f.format = "xls"

Complete(fp) == Range(REQUIRED_COLUMNS) \subseteq Range(FilePool[fp].table.columns)

\* The file passes extraction, read and validation.
Accepted(fp) == HasSeason(fp) /\ Readable(fp) /\ Complete(fp)

\* The table of the file as the run emits it.
Emitted(fp) == IF raw_mode THEN FilePool[fp].table ELSE NormalizedOf[fp].val

DocumentOf(fp) == Document(Emitted(fp), SeasonOf[fp].val, now_iso)

SummaryOf(fp) == Summary(Emitted(fp), SeasonOf[fp].val, now_iso)

ManifestWritten == pc = "done" /\ HasLine("OK seasons.json", 0)

DocumentNames(d) == DOMAIN d \ {SEASONS_JSON}

\* The documents on disk that carry the stamp of this run.
WrittenNow ==
    {n \in DocumentNames(disk) : disk[n].kind = "document" /\ disk[n].generated_at = now_iso}

SameOnDisk(name) ==
    /\ name \in DOMAIN disk <=> name \in DOMAIN disk0
    /\ name \in DOMAIN disk => disk[name] = disk0[name]

\* C1: no fault of one file leaves the loop: the run is never ended by an
\* exception, and when it is over every file of the sorted list has been taken.
C1_FaultsStayInFile ==
    /\ pc # "aborted" \/ i = Len(files)
    /\ pc \in {"done", "aborted"} => \A n \in 1..Len(files) : HasLine("Leggo", files[n])

\* The summaries are those of exactly the files whose document was written,
\* which all passed extraction, read and validation; a file skipped at one of
\* these attempts no write and leaves the documents as they were.
SummariesOfWrittenFiles ==
    LET oks == SelectSeq(Taken, LAMBDA fp : HasLine("OK", fp))
    IN  /\ Len(seasons) = Len(oks)
        /\ \A j \in 1..Len(oks) :
              /\ Accepted(oks[j])
              /\ seasons[j].key = KeyOf(oks[j])
              /\ seasons[j].n_players = Len(FilePool[oks[j]].table.rows)
        /\ \A n \in 1..Len(Taken) :
              ~Accepted(Taken[n]) =>
                  ~HasLine("OK", Taken[n]) /\ ~HasLine("ERROR write", Taken[n])
        /\ \A name \in DocumentNames(disk) \cup DocumentNames(disk0) :
              (\A n \in 1..Len(Taken) :
                  Accepted(Taken[n]) => KeyOf(Taken[n]) \o JSON # name)
              => SameOnDisk(name)

\* The run is over, its files are of distinct seasons, exactly one of them
\* misses a required column and nothing else has failed.
OneIncompleteFile ==
    /\ pc = "done"
    /\ \A n \in 1..Len(files) : HasSeason(files[n]) /\ Readable(files[n])
    /\ \A m, n \in 1..Len(files) : m # n => KeyOf(files[m]) # KeyOf(files[n])
    /\ Cardinality({n \in 1..Len(files) : ~Complete(files[n])}) = 1
    /\ \A l \in 1..Len(log) : log[l].tag \notin {"ERROR write", "ERROR seasons.json"}

\* N-1 documents of this run and a manifest of N-1 entries are on disk.
AllButOne ==
    /\ Cardinality(WrittenNow) = Len(files) - 1
    /\ SEASONS_JSON \in DOMAIN disk
    /\ disk[SEASONS_JSON].kind = "manifest"
    /\ Len(disk[SEASONS_JSON].seasons) = Len(files) - 1
    /\ \A e \in 1..Len(disk[SEASONS_JSON].seasons) :
          disk[SEASONS_JSON].seasons[e].last_updated = now_iso

\* C3 as stated: a summary for exactly the files that pass every step, and a
\* batch of N files of distinct seasons of which exactly one misses a required
\* column yields N-1 documents and a manifest with N-1 entries.
C3_AllButOneForEveryBatch ==
    InRun => SummariesOfWrittenFiles /\ (OneIncompleteFile => AllButOne)

\* C3 amended: the same for a batch of two files or more; a batch of the one
\* incomplete file yields no document and writes no manifest at all.
C3_SummariesOfWrittenFiles ==
    InRun =>
        /\ SummariesOfWrittenFiles
        /\ (OneIncompleteFile /\ Len(files) >= 2) => AllButOne
        /\ (OneIncompleteFile /\ Len(files) = 1) =>
               WrittenNow = {} /\ SameOnDisk(SEASONS_JSON)

\* a_2021_2022.xlsx and c2022_2023.xls, which lacks COD and ID: one document,
\* one manifest entry.
C3_Witness ==
    /\ pc = "done"
    /\ files = <<7, 8>>
    /\ HasLine("OK", 7)
    /\ HasLine("ERROR missing columns", 8)
    /\ Len(seasons) = 1
    /\ WrittenNow = {KeyOf(7) \o JSON}
    /\ HasLine("OK seasons.json", 0)
    /\ Len(disk[SEASONS_JSON].seasons) = 1

\* The keys that more than one file of the run yields.
RepeatedKeys ==
    {KeyOf(files[n]) : n \in {n \in 1..Len(files) :
        /\ HasSeason(files[n])
        /\ \E m \in 1..Len(files) : m # n /\ HasSeason(files[m]) /\ KeyOf(files[m]) = KeyOf(files[n])}}

LastWith(k) ==
    CHOOSE n \in 1..Len(files) :
        /\ HasSeason(files[n]) /\ KeyOf(files[n]) = k
        /\ \A m \in 1..Len(files) : HasSeason(files[m]) /\ KeyOf(files[m]) = k => m <= n

\* C4 as stated: after the run, the document and the manifest entry of a key
\* that several files yield are those of the later file.
C4_LaterFileWins ==
    pc = "done" =>
        \A k \in RepeatedKeys :
            LET fp == files[LastWith(k)]
            IN  /\ k \o JSON \in DOMAIN disk
                /\ disk[k \o JSON] = DocumentOf(fp)
                /\ SEASONS_JSON \in DOMAIN disk
                /\ disk[SEASONS_JSON].kind = "manifest"
                /\ \E e \in 1..Len(disk[SEASONS_JSON].seasons) :
                      disk[SEASONS_JSON].seasons[e] = SummaryOf(fp)

\* The positions in `files` of the taken files of key k whose write succeeded.
WrittenWith(k) ==
    {n \in 1..i : HasSeason(files[n]) /\ KeyOf(files[n]) = k /\ HasLine("OK", files[n])}

\* C4 amended: a file whose key was met before is warned about and then
\* processed like any other; the manifest entry of the key is that of the last
\* of its files whose document was written, and so is the document on disk
\* unless a later write of that document failed.
C4_LastWrittenFileWins ==
    InRun =>
        /\ \A n \in 1..i :
              HasSeason(files[n]) =>
                 /\ HasLine("WARN duplicate season", files[n])
                       <=> \E m \in 1..(n - 1) :
                              HasSeason(files[m]) /\ KeyOf(files[m]) = KeyOf(files[n])
                 /\ (Accepted(files[n]) /\ (pc # "aborted" \/ n < i))
                       => HasLine("OK", files[n]) \/ HasLine("ERROR write", files[n])
        /\ \A k \in {KeyOf(files[n]) : n \in {m \in 1..i : HasSeason(files[m])}} :
              WrittenWith(k) # {} =>
                 LET last == CHOOSE n \in WrittenWith(k) : \A m \in WrittenWith(k) : m <= n
                     fp   == files[last]
                 IN  /\ \E j \in 1..Len(seasons) :
                           /\ seasons[j] = SummaryOf(fp)
                           /\ \A l \in (j + 1)..Len(seasons) : seasons[l].key # k
                     /\ ManifestWritten =>
                           /\ disk[SEASONS_JSON].kind = "manifest"
                           /\ \A e \in 1..Len(disk[SEASONS_JSON].seasons) :
                                 disk[SEASONS_JSON].seasons[e].key = k
                                    => disk[SEASONS_JSON].seasons[e] = SummaryOf(fp)
                           /\ \E e \in 1..Len(disk[SEASONS_JSON].seasons) :
                                 disk[SEASONS_JSON].seasons[e].key = k
                     /\ (\A n \in (last + 1)..i :
                            HasSeason(files[n]) /\ KeyOf(files[n]) = k
                               => ~HasLine("ERROR write", files[n]))
                           => /\ k \o JSON \in DOMAIN disk
                              /\ disk[k \o JSON] = DocumentOf(fp)

\* a_2021_2022.xlsx, then "B 2021-2022.XLSX": both written, the second warned
\* about; document and manifest entry are the second's.
C4_Witness ==
    /\ pc = "done"
    /\ files = <<7, 4>>
    /\ HasLine("OK", 7)
    /\ HasLine("WARN duplicate season", 4)
    /\ HasLine("OK", 4)
    /\ HasLine("OK seasons.json", 0)
    /\ disk[KeyOf(4) \o JSON] = DocumentOf(4)
    /\ disk[SEASONS_JSON].seasons = <<SummaryOf(4)>>

\* C5: a run that has produced no summary has neither created nor changed
\* seasons.json.
C5_NoSummaryNoManifest ==
    (InRun /\ seasons = <<>>) => SameOnDisk(SEASONS_JSON)

\* A second run in which every file is skipped, over the manifest of the first.
C5_Witness ==
    /\ pc = "done"
    /\ files # <<>>
    /\ seasons = <<>>
    /\ SEASONS_JSON \in DOMAIN disk0
    /\ disk0[SEASONS_JSON].kind = "manifest"
    /\ disk[SEASONS_JSON] = disk0[SEASONS_JSON]

\* C6: the manifest a run writes holds the keys of the files written in that
\* run and nothing else, each entry stamped by that run, whatever manifest was
\* there before; the documents of earlier runs stay on disk, untouched unless
\* a file of this run has their key.
C6_ManifestOfThisRunOnly ==
    ManifestWritten =>
        LET m == disk[SEASONS_JSON]
        IN  /\ m.kind = "manifest"
            /\ {m.seasons[e].key : e \in 1..Len(m.seasons)}
                  = {KeyOf(files[n]) : n \in {n \in 1..Len(files) : HasLine("OK", files[n])}}
            /\ \A e \in 1..Len(m.seasons) : m.seasons[e].last_updated = now_iso
            /\ \A name \in DocumentNames(disk0) :
                  /\ name \in DOMAIN disk
                  /\ (\A n \in 1..Len(files) :
                         HasSeason(files[n]) => KeyOf(files[n]) \o JSON # name)
                        => disk[name] = disk0[name]

\* The second run writes a manifest without the 2021_2022 entry of the first,
\* while 2021_2022.json is still there.
C6_Witness ==
    /\ ManifestWritten
    /\ runs = 2
    /\ SEASONS_JSON \in DOMAIN disk0
    /\ disk0[SEASONS_JSON].kind = "manifest"
    /\ \E e \in 1..Len(disk0[SEASONS_JSON].seasons) :
          disk0[SEASONS_JSON].seasons[e].key = KeyOf(7)
    /\ \A e \in 1..Len(disk[SEASONS_JSON].seasons) :
          disk[SEASONS_JSON].seasons[e].key # KeyOf(7)
    /\ KeyOf(7) \o JSON \in DOMAIN disk
    /\ disk[KeyOf(7) \o JSON].kind = "document"

\* C10: every entry of the manifest a run writes agrees with the document it
\* points to: <key>.json is there, written in this run, with the entry's key,
\* label, number of players and timestamp.
C10_ManifestAgreesWithDocuments ==
    ManifestWritten =>
        \A e \in 1..Len(disk[SEASONS_JSON].seasons) :
            LET s == disk[SEASONS_JSON].seasons[e]
            IN  /\ s.file = s.key \o JSON
                /\ s.file \in DOMAIN disk
                /\ disk[s.file].kind = "document"
                /\ disk[s.file].generated_at = now_iso
                /\ disk[s.file].season_key = s.key
                /\ disk[s.file].season_label = s.label
                /\ Len(disk[s.file].players) = s.n_players
                /\ disk[s.file].generated_at = s.last_updated

====
